---------------------------- MODULE Spec2Model ----------------------------
(***************************************************************************)
(* The WHOOP API client of src/src/whoop_mcp/client.py: the OAuth token    *)
(* lifecycle (proactive and reactive refresh), the request dispatcher      *)
(* _request with its single retry, and the paginator _paginated_request,   *)
(* run by cooperative asyncio tasks that interleave at the awaits on the   *)
(* network calls.                                                          *)
(*                                                                         *)
(* One action is one run of a coroutine from one network await to the      *)
(* next (client.post at line 79, client.request at line 122): the code     *)
(* between two awaits runs without interruption on the event loop.         *)
(* Entering and leaving `async with httpx.AsyncClient()` is taken not to   *)
(* suspend the coroutine, and set_key is a synchronous write, which goes   *)
(* through or raises OSError.  An HTTP call that gets no response within   *)
(* httpx's timeout raises httpx.TimeoutException at its await.             *)
(*                                                                         *)
(* The upstream is free: the token endpoint accepts or rejects any         *)
(* exchange and may or may not rotate the refresh token, and the tokens    *)
(* of a 200 response are never empty; the resource                         *)
(* endpoint answers any request with any status, any number of records     *)
(* up to MaxBatch and a cursor under either key or none.  Tokens are       *)
(* numbered in the order the upstream issues them, records in the order    *)
(* it serves them to a task.                                               *)
(***************************************************************************)
EXTENDS Integers, Sequences, FiniteSets, TLC

(* ------------------------------ bounds -------------------------------- *)
NumTasks == 2      \* concurrent coroutines (asyncio.gather in server.py)
NumClients == 1    \* WhoopClient instances the gathered fetches share
NumSessions == 2   \* WhoopClient instances of overlapping tool calls
MaxGatherLimit == 1 \* largest `limit` of a fetch that runs beside others
MaxLimit == 5      \* largest `limit` of a fetch that runs alone
MaxCap == 2        \* largest `max_per_page` of a fetch that runs alone
MaxBatch == 2      \* most records the upstream puts in one page

(* ------------------------- program constants -------------------------- *)
TOKEN_LIFETIME_MINUTES == 55
MAX_PER_PAGE == 25      \* the default of _paginated_request's max_per_page

Tasks == 1..NumTasks
Clients == 1..NumClients
Sessions == 1..NumSessions

NoToken == 0            \* a missing or empty token string (falsy in Python)
InitialToken == 1       \* the token get_tokens.py stored in .env
Never == -1             \* _last_token_refresh is None
NoCursor == 0           \* next_token is None

\* Wall-clock readings (minutes): the start of the session, the margin
\* itself and one minute past it.
ClockValues == {0, TOKEN_LIFETIME_MINUTES, TOKEN_LIFETIME_MINUTES + 1}

Statuses == {200, 401, 429, 500}   \* resource endpoint status codes
TokenStatuses == {200, 400}        \* token endpoint status codes
CursorKeys == {"next_token", "nextToken"}

VARIABLES
    now,                 \* datetime.now()
    last_token_refresh,  \* module global _last_token_refresh
    environ,             \* os.environ: WHOOP_ACCESS_TOKEN, WHOOP_REFRESH_TOKEN
    envfile,             \* the .env file written by set_key
    issued,              \* upstream: the last token id issued
    valid_refresh,       \* upstream: the refresh token it issued last
    tokenPosts,          \* upstream: exchanges received by the token endpoint
    built,               \* per client: "no", "ok", or "WhoopAuthError"
    access_token,        \* per client: self.access_token
    refresh_token,       \* per client: self.refresh_token
    pc,                  \* per task: the await it is suspended at
    owner,               \* per task: the client instance it runs on
    op,                  \* per task: "request" or "paginate"
    retry_on_401,        \* per task: the flag of the running _request call
    params,              \* per task: params of the running _request call
    inflight,            \* per task: the HTTP request awaiting its response
    result,              \* per task: return value or raised exception
    limit,               \* per task: _paginated_request's limit
    max_per_page,        \* per task: _paginated_request's max_per_page
    all_records,         \* per task: _paginated_request's all_records
    next_token,          \* per task: _paginated_request's next_token
    h                    \* per task: what the logical request did so far

globals ==
    <<now, last_token_refresh, environ, envfile, issued, valid_refresh,
      tokenPosts>>
clients == <<built, access_token, refresh_token>>
locals == <<pc, owner, op, retry_on_401, params, inflight, result>>
paging == <<limit, max_per_page, all_records, next_token>>
vars == <<globals, clients, locals, paging, h>>

(* ------------------------------ helpers ------------------------------- *)
Min(a, b) == IF a < b THEN a ELSE b

\* Mutant of Take: nothing is cut off.
Take_All(s, n) == s

\* all_records[:limit]
Take(s, n) == SubSeq(s, 1, Min(n, Len(s)))

\* range(a+1, a+k): the ids of the k records the upstream serves next
Batch(a, k) == [i \in 1..k |-> a + i]

NoParams == [limit |-> 0, nextToken |-> NoCursor]
NoMsg == [to |-> "none"]
NoResult == [kind |-> "none"]
NoResponse == [status |-> 0, text |-> "", records |-> <<>>]
NoTokens ==
    [access_token |-> NoToken, has_refresh_token |-> FALSE,
     refresh_token |-> NoToken]

\* What a task remembers of one logical request (one top-level _request).
NewRequestLog(age, tok) ==
    [age0 |-> age,         \* minutes since the last refresh at the start
     tok0 |-> tok,         \* self.access_token at the start
     nProactive |-> 0,     \* exchanges posted from line 116
     nReactive |-> 0,      \* exchanges posted from line 126
     nRefreshed |-> 0,     \* exchanges that succeeded
     nSend |-> 0,          \* resource requests sent
     st1 |-> 0,            \* status of the first response
     st2 |-> 0,            \* status of the response to the retry
     resp |-> NoResponse,  \* the last resource response received
     tstatus |-> 0,        \* status of the last token response
     tokens |-> NoTokens,  \* body of the last token response
     saved |-> "none",     \* how set_key ended after it
     lost |-> "none"]      \* the call that timed out: "token" or "api"

NoPage == [records |-> <<>>, next_token |-> NoCursor, nextToken |-> NoCursor]

\* What a task remembers of its whole fetch.
NoLog ==
    [req |-> NewRequestLog(Never, NoToken),
     sends |-> 0,          \* resource requests sent
     pages |-> 0,          \* bodies _request returned to the paginator
     page |-> NoPage,      \* the last of those bodies
     full |-> TRUE,        \* every response so far was a 200 with as many
                           \* records as asked for and a next_token cursor
     batches |-> <<>>]     \* the records received, in order


\* Minutes since the last refresh, Never when there was none.
Age(last, t) == IF last = Never THEN Never ELSE t - last

(* --------------------------- the exceptions --------------------------- *)
Return(v) == [kind |-> "return", value |-> v]
WhoopAuthError(m) == [kind |-> "WhoopAuthError", msg |-> m]
WhoopAPIError(m) == [kind |-> "WhoopAPIError", msg |-> m]

NoAccessToken == WhoopAuthError(<<"No access token found">>)
NoRefreshToken == WhoopAuthError(<<"No refresh token available">>)
\* Mutant of RefreshFailed: a refused exchange is reported as an API error.
RefreshFailed_AsAPIError(text) ==
    [kind |-> "WhoopAPIError", msg |-> <<"Token refresh failed", text>>]

RefreshFailed(text) == WhoopAuthError(<<"Token refresh failed", text>>)
RateLimited == WhoopAPIError(<<"Rate limit exceeded. Try again later.">>)
ApiFailed(status, text) == WhoopAPIError(<<"API error", status, text>>)

\* The httpx.TimeoutException of a call that got no response in time; the
\* client does not catch it.
TimedOut == [kind |-> "TimeoutException", msg |-> <<"timed out">>]

\* The OSError a failing set_key raises; the client does not catch it.
SetKeyFailed == [kind |-> "OSError", msg |-> <<"set_key">>]

(* ---------------------------- the messages ---------------------------- *)
\* client.post(TOKEN_URL, data={..., "refresh_token": self.refresh_token})
TokenMsg(ref) == [to |-> "token", refresh_token |-> ref]

\* client.request(method, url, headers={"Authorization": Bearer}, params)
ApiMsg(acc, p) == [to |-> "api", bearer |-> acc, params |-> p]

\* The responses the resource endpoint can give to a task that has been
\* served `a` records: an error with a body, or a page of k records whose
\* cursor, if any, is reported under one of the two keys.
ErrorResponses(st) ==
    {[status |-> st, text |-> "error body", json |-> NoPage]}

PageResponses(a) ==
    {[status |-> 200, text |-> "",
      json |-> [records |-> Batch(a, k),
                next_token |->
                    IF key = "next_token" THEN a + k + 1 ELSE NoCursor,
                nextToken |->
                    IF key = "nextToken" THEN a + k + 1 ELSE NoCursor]] :
        k \in 0..MaxBatch, key \in CursorKeys \cup {"absent"}}

ApiResponses(a) ==
    PageResponses(a) \cup UNION {ErrorResponses(st) : st \in Statuses \ {200}}

\* The responses of the token endpoint when `n` tokens have been issued: a
\* rejection, or a new access token with or without a new refresh token.
TokenResponses(n) ==
    {[status |-> 400, text |-> "error body", json |-> NoTokens]}
    \cup
    {[status |-> 200, text |-> "",
      json |-> [access_token |-> n + 1, has_refresh_token |-> rotate,
                refresh_token |-> IF rotate THEN n + 1 ELSE NoToken]] :
        rotate \in BOOLEAN}

(* ------------------------- WhoopClient, pure -------------------------- *)
\* Mutants of _token_needs_refresh: one that forgets the timestamp, one
\* that never asks for a refresh, one that is off by one at the margin.
TokenNeedsRefresh_Always(last, t) == TRUE

TokenNeedsRefresh_Never(last, t) == FALSE

TokenNeedsRefresh_AtMargin(last, t) ==
    IF last = Never THEN TRUE ELSE (t - last) >= TOKEN_LIFETIME_MINUTES

\* _token_needs_refresh
TokenNeedsRefresh(last, t) ==
    IF last = Never THEN TRUE ELSE (t - last) > TOKEN_LIFETIME_MINUTES

\* Mutant of Outcome: an error other than a first 401 is passed over as
\* if it were a body, so that a pagination ends with what it has.
Outcome_Swallow(status, retry) ==
    IF status = 401 /\ retry THEN "refresh_and_retry" ELSE "return"

\* Mutant of Outcome: every 401 is recovered from, the retry's too.
Outcome_AlwaysRetry(status, retry) ==
    IF status = 401 THEN "refresh_and_retry"
    ELSE IF status = 429 THEN "raise_rate_limit"
    ELSE IF status # 200 THEN "raise_api_error"
    ELSE "return"

\* Mutant of Outcome: a 429 is recovered from like a 401.
Outcome_Retry429(status, retry) ==
    IF status \in {401, 429} /\ retry THEN "refresh_and_retry"
    ELSE IF status = 429 THEN "raise_rate_limit"
    ELSE IF status # 200 THEN "raise_api_error"
    ELSE "return"

\* _request, lines 125-135: what a response makes the call do
Outcome(status, retry) ==
    IF status = 401 /\ retry THEN "refresh_and_retry"
    ELSE IF status = 429 THEN "raise_rate_limit"
    ELSE IF status # 200 THEN "raise_api_error"
    ELSE "return"

\* Mutant of Raised: the API error leaves out the response body.
Raised_NoBody(resp) ==
    IF resp.status = 429 THEN RateLimited
    ELSE IF resp.status # 200 THEN ApiFailed(resp.status, "")
    ELSE Return(resp.json)

\* _request, lines 129-135: the exception raised, or the value returned
Raised(resp) ==
    IF resp.status = 429 THEN RateLimited
    ELSE IF resp.status # 200 THEN ApiFailed(resp.status, resp.text)
    ELSE Return(resp.json)

\* get_cycles, line 190: the records of the body _request returned
Cycles(res) ==
    IF res.kind = "return" THEN Return(res.value.records) ELSE res

\* Mutant of PageLimit: every page asks for the cap.
PageLimit_Cap(cap, lim, n) == cap

\* _paginated_request, line 148
PageLimit(cap, lim, n) == Min(cap, lim - n)

\* _paginated_request, lines 149-151
PageParams(page_limit, cursor) ==
    [limit |-> page_limit,
     nextToken |-> IF cursor # NoCursor THEN cursor ELSE NoCursor]

\* _paginated_request, line 157: the cursor read from the response
ReadCursor(data) == data.next_token

\* Mutant of LoopBreaks: only a missing cursor ends the loop.
LoopBreaks_CursorOnly(cursor, records) == cursor = NoCursor

\* _paginated_request, line 158
LoopBreaks(cursor, records) == cursor = NoCursor \/ Len(records) = 0

\* Mutant of LoopContinues: the loop is entered once more than it should.
LoopContinues_Inclusive(n, lim) == n <= lim

\* _paginated_request, line 147
LoopContinues(n, lim) == n < lim


\* Mutant of NewAccessToken: the access token is cleared.
NewAccessToken_Cleared(tokens) == NoToken

\* _refresh_access_token, line 93: tokens["access_token"]
NewAccessToken(tokens) == tokens.access_token

\* Mutant of RefreshedAt: the timestamp is not written with the tokens.
RefreshedAt_NotYet(last, t) == last

\* _refresh_access_token, line 95: _last_token_refresh = datetime.now()
RefreshedAt(last, t) == t

\* Mutant of RotatedRefreshToken: the response replaces the refresh token
\* whether or not it carries one.
RotatedRefreshToken_Replace(tokens, current) == tokens.refresh_token

\* _refresh_access_token, line 94: tokens.get("refresh_token", current)
RotatedRefreshToken(tokens, current) ==
    IF tokens.has_refresh_token THEN tokens.refresh_token ELSE current

\* _refresh_access_token, line 99: if tokens.get("refresh_token")
SavesRefreshToken(tokens) ==
    tokens.has_refresh_token /\ tokens.refresh_token # NoToken

\* _refresh_access_token, lines 98-100: both writes to the .env file go
\* through, or the first set_key raises, or the second one does.
SetKeyOutcomes(tokens) ==
    {"ok", "raise_access"}
    \cup IF SavesRefreshToken(tokens) THEN {"raise_refresh"} ELSE {}

(* ------------------------------- Init --------------------------------- *)
TokenPairs ==
    {[access |-> a, refresh |-> r] :
        a \in {NoToken, InitialToken}, r \in {NoToken, InitialToken}}

\* The process after the import of client.py, with no client built, for
\* the client instances `cs` the tool calls will build.
Start(cs) ==
    /\ now = 0
    /\ last_token_refresh = Never
    /\ environ \in TokenPairs
    /\ envfile = environ
    /\ issued = InitialToken
    /\ valid_refresh = environ.refresh
    /\ tokenPosts = 0
    /\ built = [c \in cs |-> "no"]
    /\ access_token = [c \in cs |-> NoToken]
    /\ refresh_token = [c \in cs |-> NoToken]
    /\ pc = [t \in Tasks |-> "idle"]
    /\ owner = [t \in Tasks |-> 0]
    /\ op = [t \in Tasks |-> "none"]
    /\ retry_on_401 = [t \in Tasks |-> TRUE]
    /\ params = [t \in Tasks |-> NoParams]
    /\ inflight = [t \in Tasks |-> NoMsg]
    /\ result = [t \in Tasks |-> NoResult]
    /\ limit = [t \in Tasks |-> 0]
    /\ max_per_page = [t \in Tasks |-> 0]
    /\ all_records = [t \in Tasks |-> <<>>]
    /\ next_token = [t \in Tasks |-> NoCursor]
    /\ h = [t \in Tasks |-> NoLog]

Init == Start(Clients)

(* ----------------- the steps a coroutine ends a run with -------------- *)
\* Each of these sets pc, result, inflight, tokenPosts and h.

\* return, or raise out of the task
Finish(t, res, log) ==
    /\ pc' = [pc EXCEPT ![t] = "done"]
    /\ result' = [result EXCEPT ![t] = res]
    /\ inflight' = [inflight EXCEPT ![t] = NoMsg]
    /\ h' = [h EXCEPT ![t] = log]
    /\ UNCHANGED tokenPosts

\* Mutant of PostRefresh: the exchange is posted without looking at the
\* refresh token.
PostRefresh_Unchecked(t, ref, site, log) ==
    /\ pc' = [pc EXCEPT ![t] = site]
    /\ inflight' = [inflight EXCEPT ![t] = [to |-> "token",
                                            refresh_token |-> ref]]
    /\ tokenPosts' = tokenPosts + 1
    /\ h' = [h EXCEPT ![t] =
               IF site = "await_refresh"
               THEN [log EXCEPT !.req.nProactive = @ + 1]
               ELSE [log EXCEPT !.req.nReactive = @ + 1]]
    /\ UNCHANGED result

\* _refresh_access_token, lines 75-87, up to the await of client.post;
\* `site` is the await the caller is left at.
PostRefresh(t, ref, site, log) ==
    IF ref = NoToken
    THEN Finish(t, NoRefreshToken, log)
    ELSE /\ pc' = [pc EXCEPT ![t] = site]
         /\ inflight' = [inflight EXCEPT ![t] = TokenMsg(ref)]
         /\ tokenPosts' = tokenPosts + 1
         /\ h' = [h EXCEPT ![t] =
                    IF site = "await_refresh"
                    THEN [log EXCEPT !.req.nProactive = @ + 1]
                    ELSE [log EXCEPT !.req.nReactive = @ + 1]]
         /\ UNCHANGED result

\* _request, lines 118-122, up to the await of client.request
Send(t, acc, p, log) ==
    /\ pc' = [pc EXCEPT ![t] = "await_response"]
    /\ inflight' = [inflight EXCEPT ![t] = ApiMsg(acc, p)]
    /\ h' = [h EXCEPT ![t] = [log EXCEPT !.req.nSend = @ + 1,
                                          !.sends = @ + 1]]
    /\ UNCHANGED <<result, tokenPosts>>

\* _request, lines 115-122, entered when the client holds acc and ref and
\* the last refresh was at `last`; also sets retry_on_401 and params.
Enter(t, acc, ref, last, p, retry, log) ==
    /\ retry_on_401' = [retry_on_401 EXCEPT ![t] = retry]
    /\ params' = [params EXCEPT ![t] = p]
    /\ IF TokenNeedsRefresh(last, now)
       THEN PostRefresh(t, ref, "await_refresh", log)
       ELSE Send(t, acc, p, log)

\* A new logical request starts: the top-level call of _request.
StartLog(log, acc, last) ==
    [log EXCEPT !.req = NewRequestLog(Age(last, now), acc)]

\* _paginated_request from line 147 on, the loop test included, with
\* all_records = recs and next_token = cursor.
Loop(t, c, lim, cap, recs, cursor, log) ==
    IF LoopContinues(Len(recs), lim)
    THEN LET p == PageParams(PageLimit(cap, lim, Len(recs)), cursor)
         IN  Enter(t, access_token[c], refresh_token[c], last_token_refresh,
                   p, TRUE,
                   StartLog(log, access_token[c], last_token_refresh))
    ELSE /\ Finish(t, Return(Take(recs, lim)), log)
         /\ UNCHANGED <<retry_on_401, params>>

(* ------------------------------ actions ------------------------------- *)
\* The wall clock advances.
Tick ==
    /\ \E t \in ClockValues : t > now /\ now' = t
    /\ UNCHANGED <<last_token_refresh, environ, envfile, issued,
                   valid_refresh, tokenPosts,
                   clients, locals, paging, h>>

\* Mutant of Construct: the client is built from the tokens os.environ
\* held when the process started.
Construct_AtImport(c) ==
    /\ built[c] = "no"
    /\ \A b \in DOMAIN built : b < c => built[b] # "no"
    /\ access_token' = [access_token EXCEPT ![c] =
                           Min(environ.access, InitialToken)]
    /\ refresh_token' = [refresh_token EXCEPT ![c] =
                            Min(environ.refresh, InitialToken)]
    /\ built' = [built EXCEPT ![c] =
                    IF environ.access = NoToken THEN "WhoopAuthError"
                    ELSE "ok"]
    /\ UNCHANGED <<globals, locals, paging, h>>

\* Mutant of Construct: the client is built whatever os.environ holds.
Construct_Unchecked(c) ==
    /\ built[c] = "no"
    /\ \A b \in DOMAIN built : b < c => built[b] # "no"
    /\ access_token' = [access_token EXCEPT ![c] = environ.access]
    /\ refresh_token' = [refresh_token EXCEPT ![c] = environ.refresh]
    /\ built' = [built EXCEPT ![c] = "ok"]
    /\ UNCHANGED <<globals, locals, paging, h>>

\* WhoopClient.__init__: a tool call builds its client from os.environ.
Construct(c) ==
    /\ built[c] = "no"
    /\ \A b \in DOMAIN built : b < c => built[b] # "no"
    /\ access_token' = [access_token EXCEPT ![c] = environ.access]
    /\ refresh_token' = [refresh_token EXCEPT ![c] = environ.refresh]
    /\ built' = [built EXCEPT ![c] =
                    IF environ.access = NoToken THEN NoAccessToken.kind
                    ELSE "ok"]
    /\ UNCHANGED <<globals, locals, paging, h>>

\* get_cycles(limit): one call of _request, run up to its first await.
CallRequest(t, c, lim) ==
    /\ pc[t] = "idle"
    /\ built[c] = "ok"
    /\ owner' = [owner EXCEPT ![t] = c]
    /\ op' = [op EXCEPT ![t] = "request"]
    /\ Enter(t, access_token[c], refresh_token[c], last_token_refresh,
             PageParams(lim, NoCursor), TRUE,
             StartLog(h[t], access_token[c], last_token_refresh))
    /\ UNCHANGED <<now, last_token_refresh, environ, envfile, issued,
                   valid_refresh,
                   clients, paging>>

\* _paginated_request(endpoint, limit, max_per_page), run up to its first
\* await, or to its return when the loop is not entered.
CallPaginate(t, c, lim, cap) ==
    /\ pc[t] = "idle"
    /\ built[c] = "ok"
    /\ owner' = [owner EXCEPT ![t] = c]
    /\ op' = [op EXCEPT ![t] = "paginate"]
    /\ limit' = [limit EXCEPT ![t] = lim]
    /\ max_per_page' = [max_per_page EXCEPT ![t] = cap]
    /\ all_records' = [all_records EXCEPT ![t] = <<>>]
    /\ next_token' = [next_token EXCEPT ![t] = NoCursor]
    /\ Loop(t, c, lim, cap, <<>>, NoCursor, h[t])
    /\ UNCHANGED <<now, last_token_refresh, environ, envfile, issued,
                   valid_refresh,
                   clients>>

\* The token endpoint answers the exchange of task t, and the task runs
\* _refresh_access_token from line 89 and then its caller: line 118 after
\* the proactive refresh, the recursive _request of line 127 after the
\* reactive one.
TokenResponse(t) ==
    /\ pc[t] \in {"await_refresh", "await_reauth"}
    /\ \E resp \in TokenResponses(issued) :
       \E w \in SetKeyOutcomes(resp.json) :
        LET c == owner[t]
            tokens == resp.json
            acc == NewAccessToken(tokens)
            ref == RotatedRefreshToken(tokens, refresh_token[c])
            got == [h[t] EXCEPT !.req.tstatus = resp.status,
                                !.req.tokens = tokens]
            log == [got EXCEPT !.req.nRefreshed = @ + 1,
                               !.req.saved = "ok"]
        IN  IF resp.status # 200
            THEN /\ w = "ok"
                 /\ Finish(t, RefreshFailed(resp.text), got)
                 /\ UNCHANGED <<now, last_token_refresh, environ, envfile,
                                issued, valid_refresh, clients,
                                retry_on_401, params>>
            ELSE /\ access_token' = [access_token EXCEPT ![c] = acc]
                 /\ refresh_token' = [refresh_token EXCEPT ![c] = ref]
                 /\ last_token_refresh' = RefreshedAt(last_token_refresh, now)
                 /\ envfile' =
                        IF w = "raise_access" THEN envfile
                        ELSE [access |-> acc,
                              refresh |-> IF SavesRefreshToken(tokens)
                                             /\ w = "ok"
                                          THEN ref ELSE envfile.refresh]
                 /\ environ' = IF w = "ok"
                               THEN [access |-> acc, refresh |-> ref]
                               ELSE environ
                 /\ issued' = issued + 1
                 /\ valid_refresh' = IF tokens.has_refresh_token
                                     THEN tokens.refresh_token
                                     ELSE valid_refresh
                 /\ IF w # "ok"
                    THEN /\ Finish(t, SetKeyFailed,
                                   [got EXCEPT !.req.saved = w])
                         /\ UNCHANGED <<retry_on_401, params>>
                    ELSE IF pc[t] = "await_refresh"
                    THEN /\ Send(t, acc, params[t], log)
                         /\ UNCHANGED <<retry_on_401, params>>
                    ELSE Enter(t, acc, ref, now, params[t], FALSE, log)
                 /\ UNCHANGED <<now, built>>
    /\ UNCHANGED <<owner, op, paging>>

\* The resource endpoint answers the request of task t, and the task runs
\* _request from line 125 and, when that returns to _paginated_request,
\* the loop from line 154.
ApiResponse(t) ==
    /\ pc[t] = "await_response"
    /\ \E resp \in ApiResponses(Len(h[t].batches)) :
        LET c == owner[t]
            out == Outcome(resp.status, retry_on_401[t])
            data == resp.json
            records == IF resp.status = 200 THEN data.records ELSE <<>>
            log == [h[t] EXCEPT
                      !.req.resp = [status |-> resp.status,
                                    text |-> resp.text,
                                    records |-> records],
                      !.req.st1 = IF h[t].req.nSend = 1 THEN resp.status ELSE @,
                      !.req.st2 = IF h[t].req.nSend = 2 THEN resp.status ELSE @,
                      !.full = /\ @
                               /\ resp.status = 200
                               /\ Len(records) = params[t].limit
                               /\ data.next_token # NoCursor,
                      !.batches = @ \o records]
        IN  IF out = "refresh_and_retry"
            THEN /\ PostRefresh(t, refresh_token[c], "await_reauth", log)
                 /\ UNCHANGED <<retry_on_401, params, paging>>
            ELSE IF out # "return" \/ op[t] = "request"
            THEN /\ Finish(t, IF op[t] = "request" THEN Cycles(Raised(resp))
                               ELSE Raised(resp), log)
                 /\ UNCHANGED <<retry_on_401, params, paging>>
            ELSE LET recs == all_records[t] \o data.records
                     cursor == ReadCursor(data)
                     plog == [log EXCEPT !.pages = @ + 1, !.page = data]
                 IN  /\ all_records' = [all_records EXCEPT ![t] = recs]
                     /\ next_token' = [next_token EXCEPT ![t] = cursor]
                     /\ UNCHANGED <<limit, max_per_page>>
                     /\ IF LoopBreaks(cursor, data.records)
                        THEN /\ Finish(t, Return(Take(recs, limit[t])), plog)
                             /\ UNCHANGED <<retry_on_401, params>>
                        ELSE Loop(t, c, limit[t], max_per_page[t], recs,
                                  cursor, plog)
    /\ UNCHANGED <<now, last_token_refresh, environ, envfile, issued,
                   valid_refresh,
                   clients, owner, op>>

\* The HTTP call task t awaits gets no response within the timeout of
\* httpx.AsyncClient(): client.post (line 79) or client.request (line 122)
\* raises, before any line after it runs.
TransportTimeout(t) ==
    /\ pc[t] \in {"await_refresh", "await_reauth", "await_response"}
    /\ Finish(t, TimedOut,
              [h[t] EXCEPT !.req.lost = IF pc[t] = "await_response"
                                        THEN "api" ELSE "token"])
    /\ UNCHANGED <<now, last_token_refresh, environ, envfile, issued,
                   valid_refresh,
                   clients, owner, op, retry_on_401, params, paging>>

Next ==
    \/ Tick
    \/ \E c \in Clients : Construct(c)
    \/ \E t \in Tasks, c \in Clients : CallRequest(t, c, 1)
    \/ \E t \in Tasks, c \in Clients, lim \in 0..MaxGatherLimit :
           CallPaginate(t, c, lim, MAX_PER_PAGE)
    \/ \E t \in Tasks : TokenResponse(t)
    \/ \E t \in Tasks : ApiResponse(t)
    \/ \E t \in Tasks : TransportTimeout(t)

\* Concurrent fetches on shared clients, as asyncio.gather runs them.
Spec == Init /\ [][Next]_vars

\* One fetch that pages through a longer feed, on its own, with the page
\* cap scaled down so that a few records make several pages.
NextPaginate ==
    \/ Tick
    \/ \E c \in Clients : Construct(c)
    \/ \E c \in Clients, lim \in 0..MaxLimit, cap \in 1..MaxCap :
           CallPaginate(1, c, lim, cap)
    \/ TokenResponse(1)
    \/ ApiResponse(1)
    \/ TransportTimeout(1)

PaginateSpec == Init /\ [][NextPaginate]_vars

\* Tool calls that each build a client of their own, as every tool of
\* server.py does, and call get_cycles on it.
InitSessions == Start(Sessions)

NextSessions ==
    \/ Tick
    \/ \E c \in Sessions : Construct(c)
    \/ \E t \in Tasks, c \in Sessions : CallRequest(t, c, 1)
    \/ \E t \in Tasks : TokenResponse(t)
    \/ \E t \in Tasks : ApiResponse(t)
    \/ \E t \in Tasks : TransportTimeout(t)

SessionsSpec == InitSessions /\ [][NextSessions]_vars

\* The same fetch when every HTTP call it awaits is answered in the end:
\* the event loop resumes the coroutine once the response, or the timeout,
\* is there.
PaginateLiveSpec ==
    /\ PaginateSpec
    /\ WF_vars(TokenResponse(1))
    /\ WF_vars(ApiResponse(1))

(* ------------------------------ claims -------------------------------- *)
\* The staleness policy in the words of the specification: never refreshed
\* this session, or last refreshed more than the margin ago.
StaleAtStart(t) ==
    \/ h[t].req.age0 = Never
    \/ h[t].req.age0 > TOKEN_LIFETIME_MINUTES

FreshAtStart(t) ==
    /\ h[t].req.age0 # Never
    /\ h[t].req.age0 <= TOKEN_LIFETIME_MINUTES

Started == {t \in Tasks : pc[t] # "idle"}

\* Exchanges task t has posted in its current logical request.
Exchanges(t) == h[t].req.nProactive + h[t].req.nReactive

\* C1: when two or more requests are launched on one client before any
\* refresh of the session has completed, and none of them meets a 401 or
\* an authentication failure, the token endpoint receives exactly one
\* refresh exchange.
C1_SingleFlightRefresh ==
    \A c \in Clients :
        LET K == {t \in Started : owner[t] = c} IN
        ( /\ Cardinality(K) >= 2
          /\ \A t \in K : /\ h[t].req.age0 = Never
                          /\ h[t].pages = 0
                          /\ h[t].req.st1 # 401
                          /\ result[t].kind # "WhoopAuthError" )
        => tokenPosts = 1

\* C2 as stated: a request that received 401 and then 200 on the retry
\* returns the body of the retry and has posted exactly one refresh
\* exchange in total.
C2_RetryOnceSuccess_Original ==
    \A t \in Tasks :
        (h[t].req.st1 = 401 /\ h[t].req.st2 = 200)
        => /\ op[t] = "request"
              => result[t] = Return(h[t].req.resp.records)
           /\ Exchanges(t) = 1

\* C2 amended: a request that received 401 and then 200 on the retry
\* returns the body of the retry and has posted exactly one reactive
\* refresh exchange; with the proactive exchange of a request that started
\* stale, that is two exchanges in total, and one when it started fresh.
C2_RetryOnceSuccess ==
    \A t \in Tasks :
        (h[t].req.st1 = 401 /\ h[t].req.st2 = 200)
        => /\ op[t] = "request"
              => /\ pc[t] = "done"
                 /\ result[t] = Return(h[t].req.resp.records)
           /\ h[t].req.nSend = 2
           /\ h[t].req.nReactive = 1
           /\ h[t].req.nProactive = IF StaleAtStart(t) THEN 1 ELSE 0
           /\ Exchanges(t) = IF StaleAtStart(t) THEN 2 ELSE 1

\* Two get_cycles calls have each returned the body of their retry, one
\* that started stale and one that started fresh.
C2_Witness ==
    \E t, u \in Tasks :
        /\ h[t].req.st1 = 401 /\ h[t].req.st2 = 200
        /\ h[u].req.st1 = 401 /\ h[u].req.st2 = 200
        /\ op[t] = "request" /\ op[u] = "request"
        /\ pc[t] = "done" /\ pc[u] = "done"
        /\ Len(h[t].req.resp.records) > 0
        /\ StaleAtStart(t) /\ FreshAtStart(u)

\* C3: a request that received 401 on the first send and 401 again on the
\* retry fails with the authentication error and has made one reactive
\* refresh exchange.
C3_RetryOnceFailure ==
    \A t \in Tasks :
        (h[t].req.st1 = 401 /\ h[t].req.st2 = 401)
        => /\ result[t].kind = "WhoopAuthError"
           /\ h[t].req.nReactive = 1

\* C4: a request that started with a stale token sends a resource request
\* only after a refresh exchange of its own has succeeded, and never with
\* the access token the client held when the request started.
C4_ProactiveRefresh ==
    \A t \in Started :
        StaleAtStart(t)
        => /\ h[t].req.nSend > 0 => h[t].req.nRefreshed >= 1
           /\ inflight[t].to = "api" => inflight[t].bearer # h[t].req.tok0
           /\ result[t].kind = "WhoopAuthError" /\ h[t].req.st1 = 0
              => h[t].req.nSend = 0

\* A request that started more than the margin after the last refresh has
\* its resource request in flight, and another one, which started stale
\* too, has failed in its proactive refresh.
C4_Witness ==
    \E t, u \in Started :
        /\ h[t].req.age0 # Never /\ StaleAtStart(t)
        /\ inflight[t].to = "api"
        /\ StaleAtStart(u)
        /\ result[u].kind = "WhoopAuthError" /\ h[u].req.nProactive = 1

\* The task whose log changes is the one that ran.
Ran(t) == h'[t] # h[t]

TokenState == <<access_token, refresh_token, last_token_refresh>>
Store == <<environ, envfile>>

\* C5: every run of a request that started within the margin of the last
\* refresh and has met no 401 posts no refresh exchange and leaves the
\* access token, the refresh token, the last-refresh timestamp and the
\* persisted store as they were.
C5_NoRefreshWhenFresh ==
    [][\A t \in Tasks :
          ( /\ Ran(t)
            /\ h'[t].req.age0 # Never
            /\ h'[t].req.age0 <= TOKEN_LIFETIME_MINUTES
            /\ h'[t].req.st1 # 401 )
          => /\ UNCHANGED <<TokenState, Store, tokenPosts>>
             /\ h'[t].req.nProactive + h'[t].req.nReactive = 0
             /\ pc'[t] \notin {"await_refresh", "await_reauth"}]_vars

\* A request that started exactly the margin after the last refresh has
\* ended on a response that is not a 401, with the tokens it started with.
C5_Witness ==
    \E t \in Tasks :
        /\ pc[t] = "done"
        /\ h[t].req.age0 = TOKEN_LIFETIME_MINUTES
        /\ h[t].req.st1 \in Statuses \ {401}
        /\ access_token[owner[t]] = h[t].req.tok0

\* The error a response other than 200, 401 and 429 is answered with.
GenericAPIError == ApiFailed(500, "error body")

\* C6: a request that received 429 fails with an error whose kind is not
\* the kind of the error raised for the other non-success statuses.
C6_RateLimitDistinct ==
    \A t \in Tasks :
        (h[t].req.st1 = 429 \/ h[t].req.st2 = 429)
        => /\ pc[t] = "done"
           /\ result[t].kind \notin {"none", "return"}
           /\ result[t].kind # GenericAPIError.kind

\* C7: once a request has received 429, on its first send or on its retry,
\* it is over: nothing is in flight for it and it has made no HTTP call
\* beyond those made before the 429 arrived.
C7_NoCallAfter429 ==
    \A t \in Tasks :
        /\ h[t].req.st1 = 429
           => /\ pc[t] = "done" /\ inflight[t] = NoMsg
              /\ h[t].req.nSend = 1
              /\ h[t].req.nReactive = 0
              /\ h[t].req.nProactive = h[t].req.nRefreshed
        /\ h[t].req.st2 = 429
           => /\ pc[t] = "done" /\ inflight[t] = NoMsg
              /\ h[t].req.nSend = 2
              /\ h[t].req.nReactive = 1
              /\ Exchanges(t) = h[t].req.nRefreshed

\* One request has ended on a 429 to its first send and another on a 429
\* to its retry.
C7_Witness ==
    \E t, u \in Tasks :
        /\ h[t].req.st1 = 429 /\ pc[t] = "done"
        /\ h[u].req.st1 = 401 /\ h[u].req.st2 = 429 /\ pc[u] = "done"

\* C8: a request whose last response has a status other than 200, 401 and
\* 429 has failed with the API error that carries that status and that
\* body, and has made no HTTP call after that response.
C8_OtherStatusIsAPIError ==
    \A t \in Tasks :
        LET r == h[t].req IN
        r.resp.status \notin {0, 200, 401, 429}
        => /\ pc[t] = "done" /\ inflight[t] = NoMsg
           /\ result[t].kind = "WhoopAPIError"
           /\ result[t].msg = <<"API error", r.resp.status, r.resp.text>>
           /\ r.nSend = IF r.st2 # 0 THEN 2 ELSE 1
           /\ r.nReactive = r.nSend - 1
           /\ Exchanges(t) = r.nRefreshed

\* A request has failed on a 500 to its first send.
C8_Witness ==
    \E t \in Tasks :
        /\ h[t].req.st1 = 500
        /\ pc[t] = "done"
        /\ result[t] = ApiFailed(500, h[t].req.resp.text)

CeilDiv(a, b) == (a + b - 1) \div b

Paginating == {t \in Tasks : op[t] = "paginate"}

\* The upstream has so far answered every resource request of the fetch
\* with as many records as it asked for and a next cursor, and no refresh
\* was refused or lost in a failed write, and no call timed out.
UpstreamFull(t) ==
    /\ h[t].full
    /\ result[t].kind \notin {"WhoopAuthError", "OSError", "TimeoutException"}

\* C9: against an upstream that always returns as many records as asked
\* for and a next cursor, every page request asks for
\* min(cap, limit - records accumulated so far) records, and the finished
\* pagination has made ceil(limit / cap) page requests and returns exactly
\* limit records, in the order received.
C9_PageRequests ==
    \A t \in Paginating :
        UpstreamFull(t)
        => /\ inflight[t].to = "api"
              => /\ inflight[t].params.limit =
                        Min(max_per_page[t], limit[t] - Len(h[t].batches))
                 /\ h[t].sends = h[t].pages + 1
           /\ pc[t] = "done"
              => /\ h[t].sends = CeilDiv(limit[t], max_per_page[t])
                 /\ h[t].pages = h[t].sends
                 /\ result[t] = Return(h[t].batches)
                 /\ Len(result[t].value) = limit[t]

\* A pagination of 5 records in pages of at most 2 has finished with
\* three page requests, the last one for 1 record.
C9_Witness ==
    \E t \in Paginating :
        /\ UpstreamFull(t) /\ pc[t] = "done"
        /\ limit[t] = 5 /\ max_per_page[t] = 2
        /\ h[t].sends = 3
        /\ params[t].limit = 1
        /\ result[t] = Return(<<1, 2, 3, 4, 5>>)

\* C10: a page with zero records is the last page of its pagination,
\* whatever cursor it carries: the pagination is over, nothing is in
\* flight, and it returns the records of the earlier pages.
C10_EmptyPageStops ==
    \A t \in Paginating :
        (h[t].pages > 0 /\ Len(h[t].page.records) = 0)
        => /\ pc[t] = "done" /\ inflight[t] = NoMsg
           /\ result[t] = Return(h[t].batches)
           /\ Len(result[t].value) < limit[t]

\* The second page of a pagination came with no records and a next
\* cursor, and the pagination returned the records of the first page.
C10_Witness ==
    \E t \in Paginating :
        /\ h[t].pages = 2
        /\ Len(h[t].page.records) = 0
        /\ h[t].page.next_token # NoCursor
        /\ Len(h[t].batches) > 0
        /\ result[t] = Return(h[t].batches)

\* C11: a pagination with limit 0 is over as soon as it is called: it
\* returns an empty sequence and has sent no resource request and posted
\* no refresh exchange, whether or not the token was stale.
C11_ZeroLimitNoCall ==
    \A t \in Paginating :
        limit[t] = 0
        => /\ pc[t] = "done" /\ inflight[t] = NoMsg
           /\ result[t] = Return(<<>>)
           /\ h[t].sends = 0
           /\ Exchanges(t) = 0
           /\ h[t].req.tstatus = 0

\* A pagination with limit 0 has returned on a client whose token is
\* stale, and the token endpoint has received nothing.
C11_Witness ==
    \E t \in Paginating :
        /\ limit[t] = 0 /\ pc[t] = "done"
        /\ result[t] = Return(<<>>)
        /\ TokenNeedsRefresh(last_token_refresh, now)
        /\ tokenPosts = 0

\* The token endpoint's answer to task t is handled in this step.
Answered(t) ==
    /\ pc[t] \in {"await_refresh", "await_reauth"}
    /\ pc'[t] # pc[t]
    /\ h'[t].req.lost = "none"

\* C12: a refresh whose 200 response carries no refresh token leaves the
\* client's refresh token as it was, and every refresh whose response is
\* a 200 leaves the client with a refresh token to post next time.
C12_RefreshTokenRetained ==
    [][\A t \in Tasks :
          (Answered(t) /\ h'[t].req.tstatus = 200)
          => /\ refresh_token[owner[t]] # NoToken
             /\ refresh_token'[owner[t]] # NoToken
             /\ ~h'[t].req.tokens.has_refresh_token
                => refresh_token'[owner[t]] = refresh_token[owner[t]]]_vars

\* One request has refreshed twice, before its first send and after a
\* 401, neither response carried a refresh token, and the client holds
\* the refresh token it was constructed with and a new access token.
C12_Witness ==
    \E t \in Tasks :
        /\ h[t].req.nRefreshed = 2
        /\ ~h[t].req.tokens.has_refresh_token
        /\ issued = InitialToken + 2
        /\ refresh_token[owner[t]] = InitialToken
        /\ access_token[owner[t]] = issued

\* The tasks that have called _request at least once.
Requested == {t \in Started : op[t] = "paginate" => limit[t] > 0}

\* The current request of task t has called _refresh_access_token: it
\* started stale, or its first response was a 401.
CalledRefresh(t) == StaleAtStart(t) \/ h[t].req.st1 = 401

\* C13: a request that calls for a refresh on a client without a refresh
\* token has failed with the authentication error "No refresh token
\* available", and has posted no exchange to the token endpoint.
C13_NoRefreshTokenNoExchange ==
    \A t \in Requested :
        (refresh_token[owner[t]] = NoToken /\ CalledRefresh(t))
        => /\ pc[t] = "done" /\ inflight[t] = NoMsg
           /\ result[t] = NoRefreshToken
           /\ Exchanges(t) = 0
           /\ h[t].req.tstatus = 0
           /\ h[t].req.nSend = IF h[t].req.st1 = 401 THEN 1 ELSE 0

\* A request on a client built without a refresh token has failed before
\* the token endpoint received anything.
C13_Witness ==
    \E t \in Requested :
        /\ refresh_token[owner[t]] = NoToken
        /\ StaleAtStart(t)
        /\ result[t] = NoRefreshToken
        /\ tokenPosts = 0

\* C14: when the token endpoint answers an exchange with a status other
\* than 200, the request fails with the authentication error "Token
\* refresh failed", the access token, the refresh token, the last-refresh
\* timestamp and the persisted store are as they were, and no further
\* exchange is posted.
C14_RefusedRefreshChangesNothing ==
    [][\A t \in Tasks :
          (Answered(t) /\ h'[t].req.tstatus # 200)
          => /\ pc'[t] = "done" /\ inflight'[t] = NoMsg
             /\ result'[t] = WhoopAuthError(<<"Token refresh failed",
                                              "error body">>)
             /\ UNCHANGED <<TokenState, Store, tokenPosts, issued>>
             /\ Exchanges(t)' = Exchanges(t)]_vars

\* A reactive refresh was refused after the proactive one had succeeded:
\* the request has failed and the client holds the tokens and the
\* timestamp of the proactive refresh.
C14_Witness ==
    \E t \in Tasks :
        /\ h[t].req.tstatus = 400
        /\ h[t].req.nProactive = 1 /\ h[t].req.nReactive = 1
        /\ h[t].req.nRefreshed = 1
        /\ pc[t] = "done" /\ result[t].kind = "WhoopAuthError"
        /\ last_token_refresh # Never
        /\ access_token[owner[t]] = InitialToken + 1
        /\ envfile.access = InitialToken + 1

\* The tokens client c holds, as the store would hold them.
Held(c) == [access |-> access_token[c], refresh |-> refresh_token[c]]

\* C15: when a refresh returns, the last-refresh timestamp is the time of
\* the return, and the .env file and os.environ hold the access token and
\* the refresh token the client holds.
C15_RefreshFlushesTokens ==
    [][\A t \in Tasks :
          ( /\ Answered(t)
            /\ h'[t].req.tstatus = 200
            /\ h'[t].req.saved = "ok" )
          => /\ last_token_refresh' = now'
             /\ envfile' = Held(owner[t])'
             /\ environ' = Held(owner[t])']_vars

\* C16: when a write to the .env file fails during a refresh, the refresh
\* does not return normally, and the access token and the refresh token
\* the client holds next to its last-refresh timestamp are those of the
\* .env file.
C16_FailedWriteNoDivergence ==
    [][\A t \in Tasks :
          ( /\ Answered(t)
            /\ h'[t].req.tstatus = 200
            /\ h'[t].req.saved \in {"raise_access", "raise_refresh"} )
          => /\ pc'[t] = "done"
             /\ result'[t].kind \notin {"none", "return"}
             /\ envfile' = Held(owner[t])']_vars

\* C17: when os.environ holds no access token, or an empty one, building
\* a client fails with the authentication error "No access token found":
\* there is no client to call, so no task has started on it and nothing
\* has been sent to the token endpoint or the resource endpoint.
C17_NoAccessTokenFailsFast ==
    \A c \in Clients :
        (built[c] # "no" /\ environ.access = NoToken)
        => /\ built[c] = NoAccessToken.kind
           /\ \A t \in Tasks : owner[t] # c /\ inflight[t] = NoMsg
           /\ tokenPosts = 0

\* The construction of a client has failed with a refresh token but no
\* access token in os.environ, before anything was sent.
C17_Witness ==
    \E c \in Clients :
        /\ built[c] = "WhoopAuthError"
        /\ environ = [access |-> NoToken, refresh |-> InitialToken]
        /\ tokenPosts = 0
        /\ \A t \in Tasks : pc[t] = "idle"

\* C18: a client that was built holds a non-empty access token, whatever
\* requests, paginations and refreshes, successful or failed, have run
\* on it.
C18_AccessTokenNonEmpty ==
    \A c \in Clients : built[c] = "ok" => access_token[c] # NoToken

\* On one client a pagination has refreshed successfully and a request
\* has failed in a refused refresh, and the client holds the access token
\* of the last successful exchange.
C18_Witness ==
    \E t, u \in Started :
        /\ owner[t] = owner[u] /\ built[owner[t]] = "ok"
        /\ op[t] = "paginate" /\ h[t].req.nRefreshed >= 1
        /\ pc[u] = "done" /\ h[u].req.tstatus = 400
        /\ access_token[owner[t]] \notin {NoToken, InitialToken}

\* C19: whatever the endpoints answer, one logical request sends its
\* resource request at most twice and posts at most one refresh exchange
\* in reaction to a 401; a second send is the retry after a 401 to the
\* first, and the response to it ends the request.
C19_BoundedRecovery ==
    \A t \in Tasks :
        LET r == h[t].req IN
        /\ r.nSend <= 2
        /\ r.nReactive <= 1
        /\ r.nReactive = 1 => r.st1 = 401
        /\ r.nSend = 2 => (r.st1 = 401 /\ r.nReactive = 1)
        /\ r.st2 # 0 => (r.nSend = 2 /\ inflight[t] = NoMsg)

\* A request has been answered 401 twice: it has sent two resource
\* requests and one reactive exchange, and it is over.
C19_Witness ==
    \E t \in Tasks :
        /\ h[t].req.st1 = 401 /\ h[t].req.st2 = 401
        /\ h[t].req.nSend = 2 /\ h[t].req.nReactive = 1
        /\ pc[t] = "done"

\* The last resource response of task t, as _request saw it.
LastResponse(t) ==
    [status |-> h[t].req.resp.status, text |-> h[t].req.resp.text,
     json |-> NoPage]

\* The last resource response of task t is an error _request raises for:
\* any status but 200, a first 401 excepted.
PageFailed(t) ==
    /\ h[t].req.resp.status \notin {0, 200}
    /\ h[t].req.resp.status = 401 => h[t].req.st2 = 401

\* C20: when a page request of a pagination fails, with the rate-limit
\* error, an API error or an authentication error of a refresh, the
\* pagination is over with that very error as its outcome: no page
\* request is in flight after the failed one, and the records of the
\* earlier pages are not returned.
C20_PageErrorPropagates ==
    \A t \in Paginating :
        /\ PageFailed(t)
           => /\ pc[t] = "done" /\ inflight[t] = NoMsg
              /\ result[t] = Raised(LastResponse(t))
              /\ result[t].kind # "return"
        /\ h[t].req.tstatus \notin {0, 200}
           => /\ pc[t] = "done" /\ inflight[t] = NoMsg
              /\ result[t] = RefreshFailed("error body")
        /\ result[t].kind = "return"
           => /\ h[t].req.resp.status \in {0, 200}
              /\ h[t].req.tstatus \in {0, 200}

\* The third page request of a pagination was answered 429 after two
\* pages with records: the pagination has failed with the rate-limit
\* error and three page requests sent.
C20_Witness ==
    \E t \in Paginating :
        /\ h[t].pages = 2 /\ Len(all_records[t]) > 0
        /\ h[t].req.resp.status = 429
        /\ result[t] = RateLimited
        /\ h[t].sends = 3
        /\ pc[t] = "done"

\* Every request that was started is over, and no write to the .env file
\* has failed.
AllFinished ==
    /\ Started # {}
    /\ \A t \in Started : pc[t] = "done" /\ h[t].req.saved \in {"none", "ok"}

\* C21: whatever the interleaving of the requests on one client, no
\* exchange is with the token endpoint carrying a refresh token that a
\* rotation has already replaced, and when all requests are over the
\* client holds, and the .env file and os.environ hold, the refresh token
\* the token endpoint issued last.
C21_NoRefreshRace ==
    /\ \A t \in Tasks :
          inflight[t].to = "token"
          => inflight[t].refresh_token = valid_refresh
    /\ AllFinished
       => \A c \in Clients :
             built[c] = "ok"
             => /\ refresh_token[c] = valid_refresh
                /\ envfile.refresh = valid_refresh
                /\ environ.refresh = valid_refresh

\* The page requests task t has made: the calls of _request that have
\* returned a body, and the one that is running.
PageRequests(t) ==
    h[t].pages
    + IF pc[t] \in {"await_refresh", "await_reauth", "await_response"}
      THEN 1 ELSE 0

\* C22: when every call is answered in the end, a pagination comes to an
\* end, whatever the pages carry; it never makes more than `limit` page
\* requests, because every page it continued after brought at least one
\* record.
C22_PaginationTerminates ==
    /\ [](\A t \in Paginating :
             /\ PageRequests(t) <= limit[t]
             /\ pc[t] # "done" => Len(all_records[t]) >= h[t].pages)
    /\ \A t \in Tasks : (op[t] = "paginate") ~> (pc[t] = "done")

\* A pagination with limit 5 has ended after five pages of one record,
\* each but the last asked for two and each with a next cursor.
C22_Witness ==
    \E t \in Paginating :
        /\ pc[t] = "done" /\ result[t].kind = "return"
        /\ limit[t] = 5 /\ max_per_page[t] = 2
        /\ h[t].pages = 5
        /\ h[t].page.next_token # NoCursor

\* C23: whatever the pages carry, more records than asked for or fewer,
\* the sequence a pagination returns has at most `limit` records and is a
\* prefix of the batches received, concatenated in the order of the
\* requests.
C23_ResultIsBoundedPrefix ==
    \A t \in Paginating :
        result[t].kind = "return"
        => /\ Len(result[t].value) <= limit[t]
           /\ Len(result[t].value) <= Len(h[t].batches)
           /\ \A i \in 1..Len(result[t].value) :
                 result[t].value[i] = h[t].batches[i]
           /\ Len(result[t].value) < limit[t]
              => result[t].value = h[t].batches

\* A pagination with limit 3 asked for two records and then for one, got
\* two each time, and returned the first three of the four.
C23_Witness ==
    \E t \in Paginating :
        /\ limit[t] = 3 /\ max_per_page[t] = 2
        /\ h[t].pages = 2 /\ params[t].limit = 1
        /\ h[t].batches = <<1, 2, 3, 4>>
        /\ result[t] = Return(<<1, 2, 3>>)

\* The next cursor of a page, under whichever key it is reported.
CursorOf(page) ==
    IF page.next_token # NoCursor THEN page.next_token ELSE page.nextToken

\* C24: the first page request of a pagination carries no cursor, and
\* after a page with at least one record and a next cursor, under the key
\* next_token or the key nextToken, that leaves fewer than `limit` records
\* accumulated, the pagination has made a further page request with
\* exactly that cursor.
C24_CursorContinuation ==
    \A t \in Paginating :
        /\ (h[t].pages = 0 /\ inflight[t].to = "api")
           => inflight[t].params.nextToken = NoCursor
        /\ ( /\ h[t].pages > 0
             /\ Len(h[t].page.records) > 0
             /\ CursorOf(h[t].page) # NoCursor
             /\ Len(all_records[t]) < limit[t] )
           => /\ result[t].kind # "return"
              /\ params[t].nextToken = CursorOf(h[t].page)

\* C25: a request that judges its client's token fresh, and so sends its
\* first resource request without a proactive refresh, sends the access
\* token of the last refresh, the one the timestamp is of, and never an
\* older token that its client was built with before a refresh made by
\* another client.
C25_TimestampScopedToClient ==
    [][\A t \in Tasks :
          (pc[t] = "idle" /\ pc'[t] = "await_response")
          => inflight'[t].bearer = issued]_vars

\* Task t builds the header of a resource request in this step.
BuildsHeader(t) == inflight'[t] # inflight[t] /\ inflight'[t].to = "api"

\* Task t completes a refresh in this step: the exchange was answered 200
\* and the writes went through.
Refreshes(t) ==
    /\ Answered(t)
    /\ h'[t].req.tstatus = 200
    /\ h'[t].req.saved = "ok"
    /\ h'[t].req.nRefreshed = h[t].req.nRefreshed + 1

\* C26: between any two steps of the tasks there is either no timestamp
\* and no token but the one the clients were built with, or a timestamp
\* and the token issued last, held by the client that refreshed last; a
\* refresh writes the access token, the refresh token, the timestamp,
\* the .env file and os.environ in one step, the timestamp moves only together with the access token, and
\* every header is built from the access token the client holds at that
\* step, with the timestamp within the margin.
C26_ConsistentSnapshot ==
    /\ [](\/ /\ last_token_refresh = Never
              /\ issued = InitialToken
              /\ \A c \in Clients :
                    built[c] = "ok" => access_token[c] = InitialToken
           \/ /\ last_token_refresh # Never
              /\ issued > InitialToken
              /\ \E c \in Clients :
                    built[c] = "ok" /\ access_token[c] = issued)
    /\ [][/\ \A t \in Tasks :
               Refreshes(t)
               => /\ access_token'[owner[t]] = h'[t].req.tokens.access_token
                  /\ last_token_refresh' = now'
                  /\ environ' = Held(owner[t])'
                  /\ envfile'.access = access_token'[owner[t]]
          /\ last_token_refresh' # last_token_refresh
             => \E t \in Tasks :
                   /\ Answered(t) /\ h'[t].req.tstatus = 200
                   /\ access_token'[owner[t]] = issued'
          /\ environ' # environ => \E t \in Tasks : Refreshes(t)
          /\ \A t \in Tasks :
               BuildsHeader(t)
               => /\ inflight'[t].bearer = access_token'[owner'[t]]
                  /\ ~TokenNeedsRefresh(last_token_refresh', now')]_vars

\* While one request was awaiting its response, another one refreshed
\* the token; a third step then built a header: the request of the
\* refreshing task carries the new token, and the client holds it with
\* the timestamp of the refresh.
C26_Witness ==
    \E t, u \in Started :
        /\ t # u /\ owner[t] = owner[u]
        /\ h[t].req.nRefreshed >= 1 /\ h[t].req.nReactive = 1
        /\ inflight[t].to = "api" /\ inflight[t].bearer = issued
        /\ inflight[u].to = "api" /\ inflight[u].bearer # issued
        /\ h[u].req.nRefreshed = 0
        /\ access_token[owner[t]] = issued
        /\ last_token_refresh = now

\* C27: a refresh that returns leaves in os.environ the access token of
\* its response and the refresh token its client holds, nothing else
\* changes os.environ, and a client that is built starts with the tokens
\* os.environ holds at that moment: after a refresh, those of the last
\* refresh that returned, not those of the start of the process.
C27_LaterClientGetsRefreshedTokens ==
    [][/\ \A t \in Tasks :
             Refreshes(t)
             => /\ environ'.access = h'[t].req.tokens.access_token
                /\ environ' = Held(owner[t])'
       /\ environ' # environ => \E t \in Tasks : Refreshes(t)
       /\ \A c \in DOMAIN built :
             (built[c] = "no" /\ built'[c] = "ok")
             => Held(c)' = environ]_vars

\* The second client was built after a request of the first had refreshed
\* and rotated the tokens: it has made no request yet and holds the
\* tokens of that refresh.
C27_Witness ==
    \E t \in Started :
        /\ owner[t] = 1
        /\ h[t].req.nRefreshed = 1 /\ h[t].req.tokens.has_refresh_token
        /\ DOMAIN built = Sessions /\ built[2] = "ok"
        /\ \A u \in Started : owner[u] # 2
        /\ access_token[2] = h[t].req.tokens.access_token
        /\ refresh_token[2] = h[t].req.tokens.refresh_token
        /\ access_token[2] # InitialToken /\ refresh_token[2] # InitialToken
        /\ access_token[1] = access_token[2]

\* C28: a request whose resource request got no response within the
\* transport's timeout is over, failed with the client's API error.
C28_TimeoutIsAPIError ==
    \A t \in Tasks :
        h[t].req.lost = "api"
        => /\ pc[t] = "done" /\ inflight[t] = NoMsg
           /\ result[t].kind = "WhoopAPIError"

=============================================================================
